---- MODULE Spec2Model ----
(***************************************************************************)
(* Model of the Buffett Indicator application: src/main.py (World Bank     *)
(* fetcher, per-country table, combiner) and the fetch handler of          *)
(* src/Home.py (error handling, missing-year handling, rendering).         *)
(*                                                                         *)
(* Floating point values are modelled as exact rationals plus the two      *)
(* special values the code can produce from non-negative inputs: NaN (a    *)
(* missing cell) and +inf (a positive number divided by zero).             *)
(* Every series and column carries its pandas dtype: float64, or object   *)
(* when pandas built it from values that hold no number. Callers pass both *)
(* years explicitly, as Home.py line 43 does, so the end_year default of   *)
(* main.py lines 38-39 is not taken.                                       *)
(***************************************************************************)
EXTENDS Integers, Sequences, FiniteSets, TLC

VARIABLES
    pc,          \* position of the running script / call
    caller,      \* "home" (src/Home.py) or "direct" (main.py used as a library)
    countries,   \* argument of fetch_for_countries
    start_year,  \* argument of fetch_for_countries
    end_year,    \* argument of fetch_for_countries
    i,           \* position of the for loop of fetch_for_countries (1-based)
    mc,          \* local of fetch_for_countries: the market-cap series
    result,      \* local of fetch_for_countries: dict name -> table
    error,       \* the exception in flight ("none" when there is none)
    events,      \* log of requests.get calls and time.sleep calls, in order
    delivered,   \* what the caller received / what Home.py displayed
    call,        \* unit specifications: the function applied and its arguments
    ret          \* unit specifications: what it returned

vars == <<pc, caller, countries, start_year, end_year, i, mc, result, error,
          events, delivered, call, ret>>

mainVars == <<pc, caller, countries, start_year, end_year, i, mc, result,
              error, events, delivered>>

----------------------------------------------------------------------------
(* Bounds of the model *)

MaxVal == 2        \* JSON numbers of a response are drawn from 0..MaxVal
MaxRecords == 2    \* longest records array of a response
MaxCountries == 2  \* longest list of countries / largest dict of tables

(* Program constants *)

MinYear == 1990    \* min_value of the year inputs of Home.py

\* pd.Timestamp.now().year: the model runs three years after MinYear
NowYear == MinYear + 3

----------------------------------------------------------------------------
(* Floats *)

NaN == [k |-> "nan", n |-> 0, d |-> 1]
Inf == [k |-> "inf", n |-> 0, d |-> 1]

RECURSIVE Gcd(_, _)
Gcd(a, b) == IF b = 0 THEN a ELSE Gcd(b, a % b)

Abs(x) == IF x < 0 THEN -x ELSE x

\* the rational n/d in lowest terms (d > 0)
Frac(n, d) ==
    LET g == Gcd(Abs(n), d)
    IN  [k |-> "num", n |-> n \div g, d |-> d \div g]

Float(n) == Frac(n, 1)

IsNaN(x) == x.k = "nan"
NotNa(x) == x.k # "nan"
IsFinite(x) == x.k = "num"

\* float division as numpy does it: x/0 is inf for x > 0, 0/0 is NaN, and
\* NaN propagates (operands here are finite and non-negative, or NaN)
FloatDiv(a, b) ==
    IF IsNaN(a) \/ IsNaN(b) THEN NaN
    ELSE IF b.n = 0 THEN (IF a.n = 0 THEN NaN ELSE Inf)
    ELSE Frac(a.n * b.d, a.d * b.n)

\* x * c for a positive integer c
FloatScale(x, c) ==
    IF x.k = "num" THEN Frac(x.n * c, x.d) ELSE x

----------------------------------------------------------------------------
(* Sequences of years *)

SeqToSet(s) == {s[j] : j \in 1..Len(s)}

RECURSIVE Insert(_, _)
Insert(s, y) ==
    IF s = <<>> THEN <<y>>
    ELSE IF y <= Head(s) THEN <<y>> \o s
    ELSE <<Head(s)>> \o Insert(Tail(s), y)

RECURSIVE SortAsc(_)
SortAsc(s) == IF s = <<>> THEN <<>> ELSE Insert(SortAsc(Tail(s)), Head(s))

IsAscending(s) == \A j \in 1..(Len(s) - 1) : s[j] < s[j + 1]

\* the elements of t that are not in s appended to s, in t's order
RECURSIVE AppendNew(_, _)
AppendNew(s, t) ==
    IF t = <<>> THEN s
    ELSE AppendNew(IF Head(t) \in SeqToSet(s) THEN s ELSE Append(s, Head(t)),
                   Tail(t))

----------------------------------------------------------------------------
(* The supported countries and indicators *)

TOP10_COUNTRIES ==
    ("United States" :> "USA") @@ ("China" :> "CHN") @@ ("Japan" :> "JPN") @@
    ("India" :> "IND") @@ ("United Kingdom" :> "GBR") @@ ("France" :> "FRA") @@
    ("Canada" :> "CAN") @@ ("Germany" :> "DEU") @@ ("Switzerland" :> "CHE") @@
    ("Australia" :> "AUS")

MARKETCAP_IND == "CM.MKT.LCAP.CD"
GDP_IND == "NY.GDP.MKTP.CD"

----------------------------------------------------------------------------
(* JSON bodies of the World Bank API *)

JNull == [t |-> "null", n |-> 0]
JNum(n) == [t |-> "number", n |-> n]

\* the decimal digits of a year, as the API writes the "date" field
RECURSIVE Digits(_)
Digits(y) == IF y < 10 THEN <<y>> ELSE Append(Digits(y \div 10), y % 10)

\* int(item["date"])
RECURSIVE ParseInt(_)
ParseInt(ds) ==
    IF Len(ds) = 0 THEN 0
    ELSE 10 * ParseInt(SubSeq(ds, 1, Len(ds) - 1)) + ds[Len(ds)]

Record(y, v) == [date |-> Digits(y), value |-> v]

\* elements of the top-level array (ElemObject is a non-empty object such
\* as the metadata of a page)
ElemNull == [t |-> "null", recs |-> <<>>]
ElemObject == [t |-> "object", recs |-> <<>>]
ElemArray(recs) == [t |-> "array", recs |-> recs]

\* top-level values of a body
BodyNotJson == [t |-> "notjson", items |-> <<>>]
BodyObject == [t |-> "object", items |-> <<>>]
BodyArray(items) == [t |-> "array", items |-> items]

----------------------------------------------------------------------------
(* pd.Series: an index (sequence of years), a value per year, a dtype *)

\* pd.Series(dtype=float)
EmptySeries == [index |-> <<>>, val |-> <<>>, dtype |-> "float64"]

\* the dtype pd.Series(values) infers from the values of a dict: float64
\* when some value is a number (None becomes NaN), object when every value
\* is None or the dict is empty
InferDtype(keys, val) ==
    IF \E y \in SeqToSet(keys) : NotNa(val[y]) THEN "float64" ELSE "object"

\* pd.Series(values)
SeriesFromDict(values) ==
    [index |-> values.keys, val |-> values.val,
     dtype |-> InferDtype(values.keys, values.val)]

\* the dict built by the loop of lines 50-54: keys in insertion order, a
\* repeated year overwrites the value and keeps its place
RECURSIVE ValuesDict(_)
ValuesDict(records) ==
    IF records = <<>> THEN [keys |-> <<>>, val |-> <<>>]
    ELSE LET rest == ValuesDict(SubSeq(records, 1, Len(records) - 1))
             item == records[Len(records)]
             year == ParseInt(item.date)
             v    == IF item.value.t = "null" THEN NaN ELSE Float(item.value.n)
         IN  [keys |-> AppendNew(rest.keys, <<year>>),
              val  |-> [y \in SeqToSet(rest.keys) \cup {year} |->
                            IF y = year THEN v ELSE rest.val[y]]]

\* pd.Series(values).sort_index()
SortIndex(s) == [index |-> SortAsc(s.index), val |-> s.val, dtype |-> s.dtype]

Returned(s) == [exc |-> "none", series |-> s]
Raised(e) == [exc |-> e, series |-> EmptySeries]

\* lines 45-58 of _fetch_indicator_for_country: from the body of a response
\* with a success status to the series returned or the exception raised
ParseBody(data) ==
    IF data.t = "notjson" THEN Raised("JSONDecodeError")
    ELSE IF data.t # "array" \/ Len(data.items) < 2 THEN Returned(EmptySeries)
    ELSE LET records == data.items[2]
         IN  IF records.t # "array" THEN Raised("TypeError")
             ELSE Returned(SortIndex(SeriesFromDict(ValuesDict(records.recs))))

\* what requests.get meets: no response at all (a transport failure), or a
\* response with a status and a body
NoResponse == [sent |-> FALSE, status |-> 0, body |-> BodyNotJson]
Response(status, body) == [sent |-> TRUE, status |-> status, body |-> body]

\* lines 43-58 of _fetch_indicator_for_country, once the request is issued:
\* requests.get raises on a transport failure, raise_for_status raises on a
\* 4xx or 5xx status, and the body is parsed otherwise
FetchIndicator(resp) ==
    IF ~resp.sent THEN Raised("ConnectionError")
    ELSE IF resp.status >= 400 /\ resp.status < 600 THEN Raised("HTTPError")
    ELSE ParseBody(resp.body)

----------------------------------------------------------------------------
(* Per-country table: lines 73-77 of fetch_for_countries *)

SeriesGet(s, y) == IF y \in DOMAIN s.val THEN s.val[y] ELSE NaN

\* the dtype of the quotient of two columns: an object operand makes pandas
\* divide element by element and return an object column
SetMax(S) == CHOOSE x \in S : \A z \in S : z <= x
SetMin(S) == CHOOSE x \in S : \A z \in S : x <= z

DivDtype(a, b) == IF a = "object" \/ b = "object" THEN "object" ELSE "float64"

\* a cell of an object column holds None where its series has the year (an
\* object series holds nothing but None) and the float nan where the year
\* comes from the other series
HoldsNone(s, y) == s.dtype = "object" /\ y \in SeqToSet(s.index)

\* one row of the division of line 76 when a column is object dtype: Python
\* divides the two cells; None as an operand raises TypeError, a float by
\* 0.0 (nan / 0.0 too) raises ZeroDivisionError
PyDivRow(mcs, gdps, y) ==
    IF HoldsNone(mcs, y) \/ HoldsNone(gdps, y) THEN "TypeError"
    ELSE IF SeriesGet(gdps, y).k = "num" /\ SeriesGet(gdps, y).n = 0
         THEN "ZeroDivisionError"
    ELSE "none"

\* df["market_cap"] / df["gdp"]: two float64 columns are divided by numpy
\* and nothing is raised; with an object column the rows are divided one by
\* one in index order, pandas catches the TypeError of a row and computes
\* the quotient over the rows without a missing operand instead, and lets
\* the ZeroDivisionError of a row through
DivRaises(mcs, gdps, index) ==
    IF DivDtype(mcs.dtype, gdps.dtype) = "float64" THEN "none"
    ELSE LET bad == {p \in 1..Len(index) : PyDivRow(mcs, gdps, index[p]) # "none"}
         IN  IF bad = {} THEN "none"
             ELSE IF PyDivRow(mcs, gdps, index[SetMin(bad)]) = "TypeError" THEN "none"
             ELSE PyDivRow(mcs, gdps, index[SetMin(bad)])

EmptyTable ==
    [index |-> <<>>, market_cap |-> <<>>, gdp |-> <<>>, buffett |-> <<>>,
     dtypes |-> [market_cap |-> "object", gdp |-> "object", buffett |-> "object"]]

TableOk(df) == [exc |-> "none", table |-> df]
TableRaised(e) == [exc |-> e, table |-> EmptyTable]

\* lines 74-76: pd.DataFrame({"market_cap": mc, "gdp": gdp}) outer-joins the
\* two indexes (sorted union), each column keeping the dtype of its series;
\* df["buffett"] = df["market_cap"] / df["gdp"] returns the table or raises
BuildCountryTable(mcs, gdps) ==
    LET index == SortAsc(AppendNew(mcs.index, gdps.index))
        years == SeqToSet(index)
    IN  IF DivRaises(mcs, gdps, index) # "none"
        THEN TableRaised(DivRaises(mcs, gdps, index))
        ELSE TableOk(
          [index      |-> index,
           market_cap |-> [y \in years |-> SeriesGet(mcs, y)],
           gdp        |-> [y \in years |-> SeriesGet(gdps, y)],
           buffett    |-> [y \in years |->
                              FloatDiv(SeriesGet(mcs, y), SeriesGet(gdps, y))],
           dtypes     |-> [market_cap |-> mcs.dtype, gdp |-> gdps.dtype,
                           buffett |-> DivDtype(mcs.dtype, gdps.dtype)]])

----------------------------------------------------------------------------
(* combine_countries_to_df: lines 81-95 *)

EmptyDict == [keys |-> <<>>, tab |-> <<>>]

\* result[name] = df
DictSet(dct, name, df) ==
    [keys |-> AppendNew(dct.keys, <<name>>),
     tab  |-> [n \in SeqToSet(dct.keys) \cup {name} |->
                  IF n = name THEN df ELSE dct.tab[n]]]

EmptyFrame == [index |-> <<>>, columns |-> <<>>, col |-> <<>>, dtype |-> <<>>]

\* the ratio column taken without the conversion to percent
PercentUnscaled(df) == [y \in SeqToSet(df.index) |-> df.buffett[y]]

\* s = df["buffett"] * 100.0, one frame per country in dict order
Percent(df) == [y \in SeqToSet(df.index) |-> FloatScale(df.buffett[y], 100)]

\* the row labels of pd.concat(frames, axis=1): the union of the frames'
\* indexes in order of first appearance
RECURSIVE ConcatIndex(_, _)
ConcatIndex(dct, k) ==
    IF k = 0 THEN <<>>
    ELSE AppendNew(ConcatIndex(dct, k - 1), dct.tab[dct.keys[k]].index)

combine_countries_to_df(country_data) ==
    IF country_data.keys = <<>> THEN EmptyFrame
    ELSE LET index == SortAsc(ConcatIndex(country_data, Len(country_data.keys)))
             cell(name, y) ==
                 IF y \in SeqToSet(country_data.tab[name].index)
                 THEN Percent(country_data.tab[name])[y] ELSE NaN
         IN  [index   |-> index,
              columns |-> country_data.keys,
              col     |-> [name \in SeqToSet(country_data.keys) |->
                              [y \in SeqToSet(index) |-> cell(name, y)]],
              dtype   |-> [name \in SeqToSet(country_data.keys) |->
                              country_data.tab[name].dtypes.buffett]]

\* DataFrame.empty: some axis has length 0
FrameEmpty(df) == df.index = <<>> \/ df.columns = <<>>

----------------------------------------------------------------------------
(* Missing-year handling: lines 52-56 of Home.py *)

\* Series.ffill down the rows: carry the last value that is not NaN
RECURSIVE FFillUpTo(_, _, _)
FFillUpTo(index, column, p) ==
    IF p = 0 THEN NaN
    ELSE IF NotNa(column[index[p]]) THEN column[index[p]]
    ELSE FFillUpTo(index, column, p - 1)

\* a fill that takes the next known value instead of the last one
RECURSIVE BFillFrom(_, _, _)
BFillFrom(index, column, p) ==
    IF p > Len(index) THEN NaN
    ELSE IF NotNa(column[index[p]]) THEN column[index[p]]
    ELSE BFillFrom(index, column, p + 1)

BFillColumn(index, column) ==
    [y \in SeqToSet(index) |->
        LET p == CHOOSE q \in 1..Len(index) : index[q] = y
        IN  BFillFrom(index, column, p)]

FFillColumn(index, column) ==
    [y \in SeqToSet(index) |->
        LET p == CHOOSE q \in 1..Len(index) : index[q] = y
        IN  FFillUpTo(index, column, p)]

\* DataFrame.ffill(): pandas up to 2.x downcasts an object column after the
\* fill (infer_objects: its cells are floats, so it becomes float64), pandas 3
\* keeps the dtype
ffill(df, pandas3) ==
    [index |-> df.index, columns |-> df.columns,
     col |-> [name \in SeqToSet(df.columns) |-> FFillColumn(df.index, df.col[name])],
     dtype |-> [name \in SeqToSet(df.columns) |->
                  IF pandas3 THEN df.dtype[name] ELSE "float64"]]

\* a + (b - a) * (x - x0) / (x1 - x0), as np.interp evaluates it; a result
\* with an infinite end point is infinite
Lerp(a, b, x, x0, x1) ==
    IF a.k = "inf" \/ b.k = "inf" THEN Inf
    ELSE Frac(a.n * b.d * (x1 - x0) + (b.n * a.d - a.n * b.d) * (x - x0),
              a.d * b.d * (x1 - x0))

\* np.interp(x, xp, fp) with xp the row positions of the valid cells: clamps
\* to the first / last valid value outside them
NpInterp(x, valid, index, column) ==
    LET below == {q \in valid : q <= x}
        above == {q \in valid : q >= x}
    IN  IF below = {} THEN column[index[SetMin(valid)]]
        ELSE IF above = {} THEN column[index[SetMax(valid)]]
        ELSE LET x0 == SetMax(below)
                 x1 == SetMin(above)
             IN  IF x0 = x1 THEN column[index[x0]]
                 ELSE Lerp(column[index[x0]], column[index[x1]], x, x0, x1)

\* Series.interpolate(method="linear") with the defaults
\* (limit_direction="forward", limit_area=None): the index is ignored and
\* rows are equally spaced; NaNs before the first valid cell are preserved
InterpolateColumn(index, column) ==
    LET valid == {q \in 1..Len(index) : NotNa(column[index[q]])}
    IN  [y \in SeqToSet(index) |->
            LET p == CHOOSE q \in 1..Len(index) : index[q] = y
            IN  IF valid = {} THEN column[y]
                ELSE IF p \in valid THEN column[y]
                ELSE IF p < SetMin(valid) THEN NaN
                ELSE NpInterp(p, valid, index, column)]

\* the outcome of a step of the handler: the frame, or the exception raised
FrameOk(df) == [exc |-> "none", frame |-> df]
FrameRaises(e) == [exc |-> e, frame |-> EmptyFrame]

ObjectColumns(df) == {name \in SeqToSet(df.columns) : df.dtype[name] = "object"}

\* DataFrame.interpolate(method="linear"): raises TypeError when every
\* column is object dtype; when only some are, pandas up to 2.x leaves those
\* columns as they are and interpolates the others, pandas 3 raises
\* TypeError
interpolate(df, pandas3) ==
    IF ObjectColumns(df) = SeqToSet(df.columns) THEN FrameRaises("TypeError")
    ELSE IF ObjectColumns(df) # {} /\ pandas3 THEN FrameRaises("TypeError")
    ELSE FrameOk([index |-> df.index, columns |-> df.columns,
                  col |-> [name \in SeqToSet(df.columns) |->
                              IF df.dtype[name] = "object" THEN df.col[name]
                              ELSE InterpolateColumn(df.index, df.col[name])],
                  dtype |-> df.dtype])

\* the selectbox of line 36 and the branches of lines 53-56
Methods == {"Keep gaps (NaN)", "Forward-fill", "Interpolate (linear)"}

HandleMissing(interpolate_method, combined, pandas3) ==
    IF interpolate_method = "Forward-fill" THEN FrameOk(ffill(combined, pandas3))
    ELSE IF interpolate_method = "Interpolate (linear)"
         THEN interpolate(combined, pandas3)
    ELSE FrameOk(combined)

\* Home.py line 70: combined.loc[combined.index.max()].dropna(), the row of
\* the last year without its absent cells; a row across columns of
\* different dtypes is an object Series (the order sort_values gives is not
\* kept here)
LatestRow(df) ==
    LET y == df.index[Len(df.index)]
    IN  [index |-> {name \in SeqToSet(df.columns) : NotNa(df.col[name][y])},
         val   |-> [name \in {n \in SeqToSet(df.columns) : NotNa(df.col[n][y])} |->
                       df.col[name][y]],
         dtype |-> IF ObjectColumns(df) = {} THEN "float64" ELSE "object"]

\* Home.py line 72: latest_df["buffett_percent"].round(2). On an object
\* Series pandas 3 raises TypeError; pandas up to 2.x rounds cell by cell
\* and raises TypeError at the first cell, a Python float
RoundRaises(latest, pandas3) ==
    latest.dtype = "object" /\ (pandas3 \/ latest.index # {})

----------------------------------------------------------------------------
(* Inputs of the model *)

JValues == {JNull} \cup {JNum(n) : n \in 0..MaxVal}

\* the years an API response may carry for a window: the window's ends and
\* the years just outside it (lines 50-54 of main.py take the date of every
\* record as it comes and never compare it with the window)
YearsNear(sy, ey) == {sy - 1, sy, ey, ey + 1}

RecordLists(Ys) ==
    UNION {[1..n -> {Record(y, v) : y \in Ys, v \in JValues}] : n \in 0..MaxRecords}

Bodies(Ys) ==
    {BodyNotJson, BodyObject, BodyArray(<<>>), BodyArray(<<ElemObject>>),
     BodyArray(<<ElemObject, ElemNull>>), BodyArray(<<ElemObject, ElemObject>>)}
    \cup {BodyArray(<<ElemObject, ElemArray(r)>>) : r \in RecordLists(Ys)}
    \cup {BodyArray(<<ElemObject, ElemArray(r), ElemObject>>) : r \in RecordLists(Ys)}

Responses(Ys) ==
    {NoResponse, Response(404, BodyObject), Response(500, BodyNotJson)}
    \cup {Response(200, b) : b \in Bodies(Ys)}

RECURSIVE SetToSeq(_)
SetToSeq(S) ==
    IF S = {} THEN <<>>
    ELSE LET x == SetMin(S) IN <<x>> \o SetToSeq(S \ {x})

\* the series a fetch can return over a set of years: ascending index, each
\* value NaN (a null of the API) or a number
SeriesOver(Ys, values) ==
    {SeriesFromDict([keys |-> SetToSeq(Ys), val |-> f]) : f \in [Ys -> values]}

FetchedValues == {NaN} \cup {Float(n) : n \in 0..MaxVal}

\* three years of the supported range, not equally spaced
SampleYears == {MinYear, MinYear + 1, NowYear}

\* with the empty float64 series of line 48 beside the empty object series
\* of an empty records array
SeriesSet ==
    {EmptySeries} \cup UNION {SeriesOver(S, FetchedValues) : S \in SUBSET SampleYears}

\* the result slot of a unit specification
Pending == [done |-> FALSE, val |-> <<>>]
Done(v) == [done |-> TRUE, val |-> v]

NoCall == [op |-> "none"]

Nothing == [kind |-> "nothing", method |-> "", combined |-> EmptyFrame,
            shown |-> EmptyFrame]

\* the variables of the batch, while a unit specification runs
MainOff ==
    /\ pc = "off" /\ caller = "none" /\ countries = <<>>
    /\ start_year = 0 /\ end_year = 0 /\ i = 0
    /\ mc = EmptySeries /\ result = EmptyDict /\ error = "none"
    /\ events = <<>> /\ delivered = Nothing

----------------------------------------------------------------------------
(* Unit specification: one call of _fetch_indicator_for_country *)

InitFetchOne ==
    /\ MainOff
    /\ \E ind \in {MARKETCAP_IND, GDP_IND},
          sy \in MinYear..NowYear, ey \in MinYear..NowYear :
          /\ sy <= ey
          /\ \E resp \in Responses(YearsNear(sy, ey)) :
                call = [op |-> "fetch",
                        country_iso3 |-> TOP10_COUNTRIES["United States"],
                        indicator |-> ind, start_year |-> sy, end_year |-> ey,
                        resp |-> resp]
    /\ ret = Pending

FetchOne ==
    /\ call.op = "fetch"
    /\ ~ret.done
    /\ ret' = Done(FetchIndicator(call.resp))
    /\ UNCHANGED <<call, mainVars>>

SpecFetchOne == InitFetchOne /\ [][FetchOne]_vars

----------------------------------------------------------------------------
(* Unit specification: the per-country table of fetch_for_countries *)

InitTable ==
    /\ MainOff
    /\ \E m \in SeriesSet, g \in SeriesSet :
          call = [op |-> "table", mc |-> m, gdp |-> g]
    /\ ret = Pending

BuildTable ==
    /\ call.op = "table"
    /\ ~ret.done
    /\ ret' = Done(BuildCountryTable(call.mc, call.gdp))
    /\ UNCHANGED <<call, mainVars>>

SpecTable == InitTable /\ [][BuildTable]_vars

----------------------------------------------------------------------------
(* The batch: fetch_for_countries (main.py lines 60-79) called by the     *)
(* fetch handler of Home.py (lines 40-91) or directly as a library         *)

\* one requests.get: the URL path names the country and the indicator, the
\* "date" parameter the window (lines 41-43)
GetEvent(iso, indicator, sy, ey) ==
    [e |-> "get", country_iso3 |-> iso, indicator |-> indicator,
     date |-> <<sy, ey>>]

\* one time.sleep(pause) (line 78)
SleepEvent(iso) ==
    [e |-> "sleep", country_iso3 |-> iso, indicator |-> "", date |-> <<>>]

IsGet(ev) == ev.e = "get"
IsSleep(ev) == ev.e = "sleep"

Unsupported == "Atlantis"
SampleNames == {"United States", "Japan"}

\* lists without a repeated element
NoRepeat(s) == \A a, b \in 1..Len(s) : a # b => s[a] # s[b]

ListsOver(S) == UNION {[1..n -> S] : n \in 0..MaxCountries}

\* the multiselect of Home.py line 32 offers the supported names only and
\* returns no name twice
HomeSelections == {s \in ListsOver(SampleNames) : NoRepeat(s)}

\* the number inputs of Home.py lines 34-35 keep each year in
\* [MinYear, NowYear]; they do not compare the two
HomeYearPairs == {<<MinYear, NowYear>>, <<MinYear + 1, MinYear + 1>>,
                  <<NowYear, MinYear>>}

\* a library caller may pass any list and any years
DirectSelections == ListsOver(SampleNames \cup {Unsupported})
DirectYearPairs == HomeYearPairs \cup
                   {<<MinYear - 1, MinYear>>, <<NowYear, NowYear + 1>>}

\* the records the API sends for a window, newest first, every value v
RECURSIVE WindowRecords(_, _, _)
WindowRecords(sy, ey, v) ==
    IF sy > ey THEN <<>>
    ELSE <<Record(ey, v)>> \o WindowRecords(sy, ey - 1, v)

\* what the API may answer to a request of the batch: no answer, an error
\* status, a body without records, the records of the window, or a record
\* of the year before the window
BatchResponses(sy, ey) ==
    {NoResponse, Response(500, BodyNotJson),
     Response(200, BodyArray(<<ElemObject>>)),
     Response(200, BodyArray(<<ElemObject, ElemArray(<<Record(sy - 1, JNum(0))>>)>>))}
    \cup {Response(200, BodyArray(<<ElemObject, ElemArray(WindowRecords(sy, ey, v))>>)) :
            v \in {JNull, JNum(MaxVal)}}

Init ==
    /\ pc = "start"
    /\ caller \in {"home", "direct"}
    /\ countries \in (IF caller = "home" THEN HomeSelections ELSE DirectSelections)
    /\ \E yp \in (IF caller = "home" THEN HomeYearPairs ELSE DirectYearPairs) :
          start_year = yp[1] /\ end_year = yp[2]
    /\ i = 0
    /\ mc = EmptySeries
    /\ result = EmptyDict
    /\ error = "none"
    /\ events = <<>>
    /\ delivered = Nothing
    /\ call = NoCall
    /\ ret = Pending

\* Home.py lines 40-43 / a library call: fetch_for_countries is entered
\* (line 66)
CallFetch ==
    /\ pc = "start"
    /\ pc' = "loop"
    /\ i' = 1
    /\ result' = EmptyDict
    /\ UNCHANGED <<caller, countries, start_year, end_year, mc, error, events,
                   delivered, call, ret>>

\* line 67 with the list exhausted, line 79
ReturnResult ==
    /\ pc = "loop"
    /\ i > Len(countries)
    /\ pc' = "returned"
    /\ UNCHANGED <<caller, countries, start_year, end_year, i, mc, result, error,
                   events, delivered, call, ret>>

\* lines 68-70: the name of this iteration is not a key of TOP10_COUNTRIES
RejectCountry ==
    /\ pc = "loop"
    /\ i <= Len(countries)
    /\ countries[i] \notin DOMAIN TOP10_COUNTRIES
    /\ error' = "ValueError"
    /\ pc' = "raised"
    /\ UNCHANGED <<caller, countries, start_year, end_year, i, mc, result, events,
                   delivered, call, ret>>

\* lines 68-71, 38-43: the market-cap request of this iteration is issued
RequestMarketCap ==
    /\ pc = "loop"
    /\ i <= Len(countries)
    /\ countries[i] \in DOMAIN TOP10_COUNTRIES
    /\ events' = Append(events, GetEvent(TOP10_COUNTRIES[countries[i]],
                                         MARKETCAP_IND, start_year, end_year))
    /\ pc' = "market_cap"
    /\ UNCHANGED <<caller, countries, start_year, end_year, i, mc, result, error,
                   delivered, call, ret>>

\* a fetch that answers a failure by issuing the request again
MarketCapRetries ==
    /\ pc = "market_cap"
    /\ Len(events) < 3 * i
    /\ \E resp \in BatchResponses(start_year, end_year) :
          FetchIndicator(resp).exc # "none"
    /\ events' = Append(events, GetEvent(TOP10_COUNTRIES[countries[i]],
                                         MARKETCAP_IND, start_year, end_year))
    /\ UNCHANGED <<pc, caller, countries, start_year, end_year, i, mc, result,
                   error, delivered, call, ret>>

\* line 71: requests.get, raise_for_status or the parsing raises; the
\* exception leaves fetch_for_countries
MarketCapRaises ==
    /\ pc = "market_cap"
    /\ \E resp \in BatchResponses(start_year, end_year) :
          /\ FetchIndicator(resp).exc # "none"
          /\ error' = FetchIndicator(resp).exc
    /\ pc' = "raised"
    /\ UNCHANGED <<caller, countries, start_year, end_year, i, mc, result, events,
                   delivered, call, ret>>

\* lines 43-58 return the market-cap series; line 72 issues the GDP request
MarketCapArrives ==
    /\ pc = "market_cap"
    /\ \E resp \in BatchResponses(start_year, end_year) :
          /\ FetchIndicator(resp).exc = "none"
          /\ mc' = FetchIndicator(resp).series
    /\ events' = Append(events, GetEvent(TOP10_COUNTRIES[countries[i]],
                                         GDP_IND, start_year, end_year))
    /\ pc' = "gdp"
    /\ UNCHANGED <<caller, countries, start_year, end_year, i, result, error,
                   delivered, call, ret>>

\* line 72: the same for the GDP request
GdpRaises ==
    /\ pc = "gdp"
    /\ \E resp \in BatchResponses(start_year, end_year) :
          /\ FetchIndicator(resp).exc # "none"
          /\ error' = FetchIndicator(resp).exc
    /\ pc' = "raised"
    /\ UNCHANGED <<caller, countries, start_year, end_year, i, mc, result, events,
                   delivered, call, ret>>

\* lines 43-58 return the GDP series; the division of line 76 raises and
\* the exception leaves fetch_for_countries: no table is stored, no pause
TableRaises ==
    /\ pc = "gdp"
    /\ \E resp \in BatchResponses(start_year, end_year) :
          /\ FetchIndicator(resp).exc = "none"
          /\ BuildCountryTable(mc, FetchIndicator(resp).series).exc # "none"
          /\ error' = BuildCountryTable(mc, FetchIndicator(resp).series).exc
    /\ pc' = "raised"
    /\ UNCHANGED <<caller, countries, start_year, end_year, i, mc, result, events,
                   delivered, call, ret>>

\* lines 43-58 return the GDP series; lines 74-77 build and store the table;
\* line 78 starts the pause
GdpArrives ==
    /\ pc = "gdp"
    /\ \E resp \in BatchResponses(start_year, end_year) :
          /\ FetchIndicator(resp).exc = "none"
          /\ BuildCountryTable(mc, FetchIndicator(resp).series).exc = "none"
          /\ result' = DictSet(result, countries[i],
                               BuildCountryTable(mc, FetchIndicator(resp).series).table)
    /\ mc' = EmptySeries
    /\ events' = Append(events, SleepEvent(TOP10_COUNTRIES[countries[i]]))
    /\ pc' = "pause"
    /\ UNCHANGED <<caller, countries, start_year, end_year, i, error, delivered,
                   call, ret>>

\* line 78 returns; the loop moves to the next name
PauseEnds ==
    /\ pc = "pause"
    /\ i' = i + 1
    /\ pc' = "loop"
    /\ UNCHANGED <<caller, countries, start_year, end_year, mc, result, error,
                   events, delivered, call, ret>>

\* a handler that swallows the exception and goes on with the tables
\* fetched before the failure
HomeShowsPartial ==
    /\ caller = "home"
    /\ pc = "raised"
    /\ delivered' = [kind |-> "page", method |-> "Keep gaps (NaN)",
                     combined |-> combine_countries_to_df(result),
                     shown |-> combine_countries_to_df(result)]
    /\ pc' = "done"
    /\ UNCHANGED <<caller, countries, start_year, end_year, i, mc, result, error,
                   events, call, ret>>

\* Home.py lines 44-46: st.error and st.stop()
HomeReportsError ==
    /\ caller = "home"
    /\ pc = "raised"
    /\ delivered' = [kind |-> "error", method |-> "", combined |-> EmptyFrame,
                     shown |-> EmptyFrame]
    /\ pc' = "stopped"
    /\ UNCHANGED <<caller, countries, start_year, end_year, i, mc, result, error,
                   events, call, ret>>

\* Home.py lines 47-50: the combined table is empty; st.warning and st.stop()
HomeNoData ==
    /\ caller = "home"
    /\ pc = "returned"
    /\ FrameEmpty(combine_countries_to_df(result))
    /\ delivered' = [kind |-> "warning", method |-> "",
                     combined |-> combine_countries_to_df(result),
                     shown |-> EmptyFrame]
    /\ pc' = "stopped"
    /\ UNCHANGED <<caller, countries, start_year, end_year, i, mc, result, error,
                   events, call, ret>>

\* Home.py lines 47-91: combine, handle the missing years as the selectbox
\* of line 36 says, then chart, latest values, CSV and raw table
HomeRenders ==
    /\ caller = "home"
    /\ pc = "returned"
    /\ ~FrameEmpty(combine_countries_to_df(result))
    /\ \E interpolate_method \in Methods, pandas3 \in BOOLEAN :
          LET filled == HandleMissing(interpolate_method,
                                      combine_countries_to_df(result), pandas3)
          IN  /\ filled.exc = "none"
              /\ ~RoundRaises(LatestRow(filled.frame), pandas3)
              /\ delivered' = [kind |-> "page", method |-> interpolate_method,
                               combined |-> combine_countries_to_df(result),
                               shown |-> filled.frame]
    /\ pc' = "done"
    /\ UNCHANGED <<caller, countries, start_year, end_year, i, mc, result, error,
                   events, call, ret>>

\* Home.py lines 47-72: the chart of the filled table is drawn (line 67),
\* then the rounding of the latest values raises; the exception is uncaught,
\* so the script ends with the traceback under the chart and without the
\* latest-values table, the CSV button and the raw table
HomeLatestRaises ==
    /\ caller = "home"
    /\ pc = "returned"
    /\ ~FrameEmpty(combine_countries_to_df(result))
    /\ \E interpolate_method \in Methods, pandas3 \in BOOLEAN :
          LET filled == HandleMissing(interpolate_method,
                                      combine_countries_to_df(result), pandas3)
          IN  /\ filled.exc = "none"
              /\ RoundRaises(LatestRow(filled.frame), pandas3)
              /\ error' = "TypeError"
              /\ delivered' = [kind |-> "chart", method |-> interpolate_method,
                               combined |-> combine_countries_to_df(result),
                               shown |-> filled.frame]
    /\ pc' = "crashed"
    /\ UNCHANGED <<caller, countries, start_year, end_year, i, mc, result,
                   events, call, ret>>

\* Home.py lines 47-56: the missing-year handling raises; the exception is
\* outside the try of lines 42-46, so the script ends with the traceback and
\* nothing of lines 58-91 is shown
HomeFillRaises ==
    /\ caller = "home"
    /\ pc = "returned"
    /\ ~FrameEmpty(combine_countries_to_df(result))
    /\ \E interpolate_method \in Methods, pandas3 \in BOOLEAN :
          LET filled == HandleMissing(interpolate_method,
                                      combine_countries_to_df(result), pandas3)
          IN  /\ filled.exc # "none"
              /\ error' = filled.exc
              /\ delivered' = [kind |-> "traceback", method |-> interpolate_method,
                               combined |-> combine_countries_to_df(result),
                               shown |-> EmptyFrame]
    /\ pc' = "crashed"
    /\ UNCHANGED <<caller, countries, start_year, end_year, i, mc, result,
                   events, call, ret>>

Next ==
    \/ CallFetch
    \/ ReturnResult
    \/ RejectCountry
    \/ RequestMarketCap
    \/ MarketCapRaises
    \/ MarketCapArrives
    \/ GdpRaises
    \/ TableRaises
    \/ GdpArrives
    \/ PauseEnds
    \/ HomeReportsError
    \/ HomeNoData
    \/ HomeRenders
    \/ HomeFillRaises
    \/ HomeLatestRaises

Spec == Init /\ [][Next]_vars

----------------------------------------------------------------------------
(* Unit specification: the handler of Home.py from line 47 on, entered     *)
(* with the dict a completed batch returned                                *)

\* a GDP series over the years of a market-cap series, every value c
ConstGdp(m, c) ==
    SeriesFromDict([keys |-> m.index, val |-> [y \in SeqToSet(m.index) |-> Float(c)]])

\* the tables fetch_for_countries can have stored: those line 76 built
\* without raising
Stored(outcomes) == {o.table : o \in {x \in outcomes : x.exc = "none"}}

TablesA == Stored({BuildCountryTable(m, ConstGdp(m, c)) : m \in SeriesSet, c \in 0..1})

TablesB ==
    Stored({BuildCountryTable(m, ConstGdp(m, 1)) :
        m \in UNION {SeriesOver(S, {NaN, Float(MaxVal)}) : S \in SUBSET SampleYears}})

OneTable(name, t) == DictSet(EmptyDict, name, t)

HomeDicts ==
    {EmptyDict}
    \cup {OneTable(a, t) : a \in SampleNames, t \in TablesA}
    \cup UNION {{DictSet(OneTable(a, t), b, u) :
                    b \in SampleNames \ {a}, t \in TablesA, u \in TablesB} :
                 a \in SampleNames}

\* the events of a completed batch over the names of a list
RECURSIVE FullLog(_, _, _)
FullLog(names, sy, ey) ==
    IF names = <<>> THEN <<>>
    ELSE LET iso == TOP10_COUNTRIES[Head(names)]
         IN  <<GetEvent(iso, MARKETCAP_IND, sy, ey), GetEvent(iso, GDP_IND, sy, ey),
               SleepEvent(iso)>> \o FullLog(Tail(names), sy, ey)

InitHome ==
    /\ pc = "returned"
    /\ caller = "home"
    /\ result \in HomeDicts
    /\ countries = result.keys
    /\ start_year = MinYear
    /\ end_year = NowYear
    /\ i = Len(countries) + 1
    /\ mc = EmptySeries
    /\ error = "none"
    /\ events = FullLog(countries, start_year, end_year)
    /\ delivered = Nothing
    /\ call = NoCall
    /\ ret = Pending

SpecHome == InitHome /\ [][HomeNoData \/ HomeRenders \/ HomeFillRaises \/ HomeLatestRaises]_vars

----------------------------------------------------------------------------
(* Properties: the fetcher *)

FetchReturned == call.op = "fetch" /\ ret.done /\ ret.val.exc = "none"

FetchYears == SeqToSet(ret.val.series.index)

InWindow(y) == call.start_year <= y /\ y <= call.end_year

\* the top-level shape the API documents: [metadata, records]
WellFormed(body) ==
    /\ body.t = "array"
    /\ Len(body.items) = 2
    /\ body.items[2].t = "array"

SuccessStatus(resp) == resp.sent /\ resp.status >= 200 /\ resp.status < 300

\* C3 (as claimed): a success response whose body is not [metadata, records]
\* makes _fetch_indicator_for_country return an empty series, without raising.
C3_MalformedYieldsEmpty ==
    (call.op = "fetch" /\ ret.done /\ SuccessStatus(call.resp)
        /\ ~WellFormed(call.resp.body))
    => (ret.val.exc = "none" /\ ret.val.series.index = <<>>)

\* C5 (as claimed): for a range start_year <= end_year and a successful
\* response, every year of the returned series lies in
\* [start_year, end_year].
C5_YearsInWindow ==
    (FetchReturned /\ call.start_year <= call.end_year /\ SuccessStatus(call.resp))
    => \A y \in FetchYears : InWindow(y)

----------------------------------------------------------------------------
(* Properties: the per-country table *)

\* C2 (as claimed): the ratio cell of a year is populated only if market cap
\* and GDP are both present and GDP is not zero, and then it is
\* market_cap / gdp; in every other year it is absent.
C2_RatioOnlyWhereDefined ==
    (call.op = "table" /\ ret.done) =>
        \A y \in SeqToSet(ret.val.table.index) :
            LET m == SeriesGet(call.mc, y)
                g == SeriesGet(call.gdp, y)
                r == ret.val.table.buffett[y]
            IN  NotNa(r) =>
                    /\ NotNa(m) /\ NotNa(g) /\ g.n # 0
                    /\ IsFinite(r) /\ r.n * m.d * g.n = m.n * g.d * r.d

----------------------------------------------------------------------------
(* Properties: the batch *)

Gets == {k \in 1..Len(events) : IsGet(events[k])}
Sleeps == {k \in 1..Len(events) : IsSleep(events[k])}

AllSupported == \A k \in 1..Len(countries) : countries[k] \in DOMAIN TOP10_COUNTRIES

\* C1 (as claimed): a list with an unsupported name anywhere in it fails with
\* no request issued.
C1_UnsupportedBeforeAnyRequest ==
    (pc # "off" /\ ~AllSupported) => Gets = {}

InvalidRange ==
    \/ start_year > end_year
    \/ start_year < MinYear \/ start_year > NowYear
    \/ end_year < MinYear \/ end_year > NowYear

\* C4 (as claimed): a call with an invalid year range fails before any
\* request is issued.
C4_InvalidRangeBeforeAnyRequest ==
    (pc # "off" /\ InvalidRange) => Gets = {}

FetchErrors == {"ConnectionError", "HTTPError"}

Aborted ==
    /\ pc \in {"raised", "stopped"}
    /\ delivered.kind \in {"nothing", "error"}
    /\ delivered.combined = EmptyFrame
    /\ delivered.shown = EmptyFrame

NothingMore ==
    error \in FetchErrors => (events' = events /\ result' = result /\ error' = error)

\* C7: once a request of the batch has failed (transport failure or failure
\* status) the exception has left fetch_for_countries, no further request or
\* pause follows, the tables fetched so far are never combined and nothing
\* but the error message is displayed.
C7_FailureAbortsBatch ==
    /\ [](error \in FetchErrors => Aborted)
    /\ [][NothingMore]_vars

\* C7 witness: a batch that failed after one country had been fetched, stopped
\* by Home.py with the error message
C7_Witness ==
    /\ pc = "stopped" /\ error \in FetchErrors
    /\ result.keys # <<>>
    /\ delivered.kind = "error"

\* the event the k-th position of the log of a batch holds
ExpectedEvent(k) ==
    LET iso == TOP10_COUNTRIES[countries[((k - 1) \div 3) + 1]]
    IN  IF (k - 1) % 3 = 0 THEN GetEvent(iso, MARKETCAP_IND, start_year, end_year)
        ELSE IF (k - 1) % 3 = 1 THEN GetEvent(iso, GDP_IND, start_year, end_year)
        ELSE SleepEvent(iso)

\* C10: over supported names the log is, country by country in list order,
\* one market-cap request, one GDP request, one pause; the request of a
\* country is issued only after the pause of the one before has returned; no
\* request is repeated; a completed run has 2n requests and n pauses.
C10_SequentialOrder ==
    (pc # "off" /\ AllSupported) =>
        /\ Len(events) <= 3 * Len(countries)
        /\ \A k \in 1..Len(events) : events[k] = ExpectedEvent(k)
        /\ pc = "loop" => Len(events) = 3 * (i - 1)
        /\ pc = "market_cap" => Len(events) = 3 * (i - 1) + 1
        /\ pc = "gdp" => Len(events) = 3 * (i - 1) + 2
        /\ pc = "pause" => Len(events) = 3 * i
        /\ pc = "returned" =>
              /\ Cardinality(Gets) = 2 * Len(countries)
              /\ Cardinality(Sleeps) = Len(countries)

\* C10 witness: a completed run over two names
C10_Witness ==
    /\ pc = "returned" /\ Len(countries) >= 2 /\ AllSupported
    /\ Len(events) = 3 * Len(countries)

----------------------------------------------------------------------------
(* Properties: the combined table and the missing-year handling *)

Combined == delivered.combined
Shown == delivered.shown
Rows == 1..Len(Combined.index)
Columns == SeqToSet(Combined.columns)

\* the cell of a column at a row position, before and after the handling
Cell(name, p) == Combined.col[name][Combined.index[p]]
ShownCell(name, p) == Shown.col[name][Shown.index[p]]

KnownBefore(name, p) == {q \in Rows : q < p /\ NotNa(Cell(name, q))}
KnownAfter(name, p) == {q \in Rows : q > p /\ NotNa(Cell(name, q))}

\* v - a = (b - a) * num / den, over the rationals
Interpolates(v, a, b, num, den) ==
    /\ IsFinite(v)
    /\ (v.n * a.d - a.n * v.d) * b.d * den = (b.n * a.d - a.n * b.d) * v.d * num

SameShape == Shown.index = Combined.index /\ Shown.columns = Combined.columns

\* C6: the combined table has the union of the years of the input tables as
\* row keys, ascending, the input names as columns, and in each cell the
\* country's ratio of that year times 100 when it has one, nothing otherwise;
\* the empty mapping gives no rows and no columns.
C6_CombineIsOuterJoin ==
    (pc # "off" /\ delivered.kind \in {"warning", "page", "chart", "traceback"}) =>
        IF result.keys = <<>>
        THEN Combined.index = <<>> /\ Combined.columns = <<>>
        ELSE /\ SeqToSet(Combined.index) =
                    UNION {SeqToSet(result.tab[n].index) : n \in SeqToSet(result.keys)}
             /\ IsAscending(Combined.index)
             /\ Combined.columns = result.keys
             /\ \A n \in SeqToSet(result.keys), y \in SeqToSet(Combined.index) :
                    LET t == result.tab[n]
                        c == Combined.col[n][y]
                    IN  IF y \in SeqToSet(t.index) /\ NotNa(t.buffett[y])
                        THEN IF IsFinite(t.buffett[y])
                             THEN IsFinite(c) /\ c.n * t.buffett[y].d
                                                 = 100 * t.buffett[y].n * c.d
                             ELSE c = t.buffett[y]
                        ELSE IsNaN(c)

\* C6 witness: two countries, each with a ratio at a year the other's table
\* does not have
C6_Witness ==
    /\ delivered.kind = "page"
    /\ \E a, b \in SeqToSet(result.keys), ya, yb \in SeqToSet(Combined.index) :
          /\ a # b
          /\ ya \notin SeqToSet(result.tab[b].index)
          /\ yb \notin SeqToSet(result.tab[a].index)
          /\ IsFinite(Combined.col[a][ya]) /\ Combined.col[a][ya].n > 0
          /\ IsFinite(Combined.col[b][yb]) /\ Combined.col[b][yb].n > 0

\* C9: forward-fill gives each absent cell the value of the nearest earlier
\* known cell of its own column, leaves it absent when there is none, and
\* leaves known cells alone.
C9_ForwardFillPerColumn ==
    (pc # "off" /\ delivered.kind \in {"page", "chart"}
        /\ delivered.method = "Forward-fill") =>
        /\ SameShape
        /\ \A name \in Columns, p \in Rows :
              IF NotNa(Cell(name, p)) THEN ShownCell(name, p) = Cell(name, p)
              ELSE IF KnownBefore(name, p) = {} THEN IsNaN(ShownCell(name, p))
              ELSE ShownCell(name, p) = Cell(name, SetMax(KnownBefore(name, p)))

\* C9 witness: an absent cell filled from its own column while the other
\* column holds a different known value in the same row and the row before
C9_Witness ==
    /\ delivered.kind = "page" /\ delivered.method = "Forward-fill"
    /\ \E name, other \in Columns, p \in Rows :
          /\ name # other /\ p > 1
          /\ IsNaN(Cell(name, p)) /\ IsFinite(Cell(name, p - 1))
          /\ IsFinite(Cell(other, p)) /\ Cell(other, p) # Cell(name, p - 1)
          /\ Cell(other, p - 1) # Cell(name, p - 1)
          /\ ShownCell(name, p) = Cell(name, p - 1)

Linear == pc # "off" /\ delivered.kind \in {"page", "chart"}
          /\ delivered.method = "Interpolate (linear)"

\* an absent cell between two known finite cells of its column
Interior(name, p) ==
    /\ IsNaN(Cell(name, p))
    /\ KnownBefore(name, p) # {} /\ KnownAfter(name, p) # {}
    /\ IsFinite(Cell(name, SetMax(KnownBefore(name, p))))
    /\ IsFinite(Cell(name, SetMin(KnownAfter(name, p))))

\* C8 (as claimed): in the table linear interpolation delivers, an absent
\* cell between two known cells is filled in proportion to
\* (Y - Y1) / (Y2 - Y1), leading and trailing gaps are left absent and known
\* cells are left alone.
C8_InterpolatesByYear ==
    Linear =>
        /\ SameShape
        /\ \A name \in Columns, p \in Rows :
              LET p1 == SetMax(KnownBefore(name, p))
                  p2 == SetMin(KnownAfter(name, p))
              IN  /\ NotNa(Cell(name, p)) => ShownCell(name, p) = Cell(name, p)
                  /\ (IsNaN(Cell(name, p))
                        /\ (KnownBefore(name, p) = {} \/ KnownAfter(name, p) = {}))
                     => IsNaN(ShownCell(name, p))
                  /\ Interior(name, p) =>
                        Interpolates(ShownCell(name, p), Cell(name, p1), Cell(name, p2),
                                     Combined.index[p] - Combined.index[p1],
                                     Combined.index[p2] - Combined.index[p1])

====
